---------------------------- MODULE Spec2Model ----------------------------
(***************************************************************************)
(* Model of pidgin's widgets.js: the widget registry, register(),          *)
(* createElement(), upgrade() and parse().                                 *)
(*                                                                         *)
(* Strings that the code converts or compares (tag names, node names, the  *)
(* "is" attribute, selectors) are sequences of one-character strings, so   *)
(* that toLowerCase(), the host's upper-casing of nodeName and the         *)
(* building and matching of selectors are computed and not assumed.        *)
(***************************************************************************)
EXTENDS Naturals, Sequences, FiniteSets, TLC

VARIABLES hasDocumentRegister, hasProto, registry, selectors, nodes, last, this

vars == <<hasDocumentRegister, hasProto, registry, selectors, nodes, last, this>>

(***************************************************************************)
(* Bounds of the model.                                                    *)
(***************************************************************************)
\* the number of DOM nodes that exist, in the specification of parse
MaxNodes == 3
\* the number of DOM nodes that exist, in the specification of upgrade
MaxUpgradeNodes == 1
\* how deep a lifecycle callback may call upgrade() on its own node again
MaxReentry == 1
\* the number of DOM nodes that exist, in the specification that compares
\* parse with upgrade
MaxMatchNodes == 2

(***************************************************************************)
(* Strings.                                                                *)
(***************************************************************************)
UpperLetters == <<"A","B","C","D","E","F","G","H","I","J","K","L","M",
                  "N","O","P","Q","R","S","T","U","V","W","X","Y","Z">>
LowerLetters == <<"a","b","c","d","e","f","g","h","i","j","k","l","m",
                  "n","o","p","q","r","s","t","u","v","w","x","y","z">>

LowerTable ==
    [c \in {UpperLetters[i] : i \in DOMAIN UpperLetters} |->
        LowerLetters[CHOOSE i \in DOMAIN UpperLetters : UpperLetters[i] = c]]
UpperTable ==
    [c \in {LowerLetters[i] : i \in DOMAIN LowerLetters} |->
        UpperLetters[CHOOSE i \in DOMAIN LowerLetters : LowerLetters[i] = c]]

LowerChar(c) == IF c \in DOMAIN LowerTable THEN LowerTable[c] ELSE c

UpperChar(c) == IF c \in DOMAIN UpperTable THEN UpperTable[c] ELSE c

\* String.prototype.toLowerCase
ToLowerCase(s) == [i \in DOMAIN s |-> LowerChar(s[i])]

\* the upper-casing the HTML DOM applies to an element's nodeName
ToUpperCase(s) == [i \in DOMAIN s |-> UpperChar(s[i])]

\* undefined and null where a string is expected: no string of characters
\* equals them
Undefined == <<"undefined">>
Null == <<"null">>

\* the tag strings register() and createElement() are called with
TagDA == <<"d","-","a">>
TagDB == <<"D","-","b">>
TagConstructor == <<"c","o","n","s","t","r","u","c","t","o","r">>
TagButton == <<"b","u","t","t","o","n">>
TagDiv == <<"d","i","v">>
TagDX == <<"d","-","x">>

Tags == {TagDA, TagDB, TagConstructor}

(***************************************************************************)
(* Errors an operation ends with; NoErr is a normal return.                *)
(***************************************************************************)
NoErr == "none"
DuplicateTag == "TypeError: A widget is already registered with tag"
InvalidBase == "TypeError: baseElement must have HTMLElement in its prototype chain"
UnresolvableBaseName == "TypeError: Cannot determine class of baseElement"
UnrecognizedBase == "TypeError: baseElement is not a recognised descendent of HTMLElement"
DefinePropertiesError == "TypeError: Object.defineProperties called with undefined"
CallbackError == "exception thrown by a lifecycle callback"
SelectorSyntaxError == "SyntaxError: querySelectorAll of an empty selector"

\* The last call made and how it ended: the operation, the tag, node (its
\* place in nodes) or root it was called with, and the error it threw.
Call(op, tag, n, root, e) == [op |-> op, tag |-> tag, n |-> n, root |-> root, err |-> e]
NoCall == Call("none", Undefined, 0, "none", NoErr)
HostCall == Call("host", Undefined, 0, "none", NoErr)

(***************************************************************************)
(* Prototype objects.  A node's prototype is the host's native prototype,  *)
(* Object.prototype, or the composed prototype of a widget.                *)
(***************************************************************************)
NativeProto ==
    [ctor |-> <<"native">>, readyCallback |-> FALSE, insertedCallback |-> FALSE,
     baseName |-> "native"]
ObjectProto ==
    [ctor |-> <<"Object">>, readyCallback |-> FALSE, insertedCallback |-> FALSE,
     baseName |-> "Object"]
\* undefined where a prototype or a descriptor snapshot is expected
UndefinedProto ==
    [ctor |-> Undefined, readyCallback |-> FALSE, insertedCallback |-> FALSE,
     baseName |-> "undefined"]

\* the prototype compose() builds for a register() call, with the two
\* shadowed properties register() adds to it
ComposedProto(tag, baseName, ready, inserted) ==
    [ctor |-> tag, readyCallback |-> ready, insertedCallback |-> inserted,
     baseName |-> baseName]

IsWidgetProto(p) == p \notin {NativeProto, ObjectProto, UndefinedProto}

(***************************************************************************)
(* The registry is a plain object literal: besides the entries register()  *)
(* stores, a lookup finds the members it inherits from Object.prototype.   *)
(***************************************************************************)
\* members of Object.prototype a key can name, as registry[key] reads them
ObjectPrototypeMembers ==
    (TagConstructor :> [prototype |-> ObjectProto, extends |-> Undefined,
                        rawDescriptors |-> UndefinedProto])

\* tag in registry
InRegistry(tag) == tag \in DOMAIN registry \/ tag \in DOMAIN ObjectPrototypeMembers

\* registry[key], for a key the lookup finds (every value found is truthy)
RegistryGet(key) ==
    IF key \in DOMAIN registry THEN registry[key] ELSE ObjectPrototypeMembers[key]

(***************************************************************************)
(* Base types passed to register().                                        *)
(***************************************************************************)
\* A base type is described by what register() reads of it: protoBaseName is
\* base.prototype._baseName, name is Function.name, textName is the class name
\* the pattern of getBaseName finds in base.toString() ("" where absent), and
\* isElement is whether HTMLElement is in its prototype chain.
HTMLElementBase ==
    [protoBaseName |-> "", name |-> "HTMLElement", textName |-> "HTMLElement",
     isElement |-> TRUE]
HTMLButtonBase ==
    [protoBaseName |-> "", name |-> "HTMLButtonElement",
     textName |-> "HTMLButtonElement", isElement |-> TRUE]
\* HTMLButtonElement on a host without Function.name, whose text is
\* "[object HTMLButtonElement]"
NamelessButtonBase ==
    [protoBaseName |-> "", name |-> "", textName |-> "HTMLButtonElement",
     isElement |-> TRUE]
\* a constructor that does not descend from HTMLElement
ObjectBase ==
    [protoBaseName |-> "", name |-> "Object", textName |-> "Object",
     isElement |-> FALSE]
\* a subclass of HTMLElement whose name is not in the tags table
CustomBase ==
    [protoBaseName |-> "", name |-> "MyElement", textName |-> "MyElement",
     isElement |-> TRUE]
\* function () {} with HTMLElement in its prototype chain: no name, and its
\* text does not match the pattern of getBaseName
AnonymousBase ==
    [protoBaseName |-> "", name |-> "", textName |-> "", isElement |-> TRUE]

Bases ==
    {HTMLElementBase, HTMLButtonBase, NamelessButtonBase, ObjectBase, CustomBase,
     AnonymousBase}

\* the tags table of register(), restricted to the classes the model uses
tags == ("HTMLButtonElement" :> TagButton) @@ ("HTMLDivElement" :> TagDiv)

\* baseElement === HTMLElement || baseElement.prototype instanceof HTMLElement
DescendsFromHTMLElement(base) == base.isElement

\* the class name, "" when none can be determined (undefined in the code)
getBaseName(base) ==
    IF base.protoBaseName # "" THEN base.protoBaseName
    ELSE IF base.name # "" THEN base.name
    ELSE base.textName

(***************************************************************************)
(* DOM nodes.  nodes is the sequence of the nodes that exist; the order of *)
(* the sequence is document order.  region: "sub" is attached and under    *)
(* the subtree root handed to parse, "doc" is attached and outside it,     *)
(* "off" is detached.                                                      *)
(***************************************************************************)
Regions == {"sub", "doc", "off"}

\* doc.createElement(name): an un-upgraded detached node
DocCreateElement(name) ==
    [nodeName |-> ToUpperCase(ToLowerCase(name)), is |-> Null, region |-> "off",
     upgraded |-> FALSE, proto |-> NativeProto, own |-> UndefinedProto,
     calls |-> <<>>]

\* element.setAttribute('is', tag)
SetIsAttribute(el, tag) == [el EXCEPT !.is = tag]

\* the shapes of node the host document holds: <d-a>, <d-b>, <constructor>,
\* <button is="d-a">, <d-a is="d-x">
NodeShapes ==
    { [name |-> TagDA, is |-> Null], [name |-> TagDB, is |-> Null],
      [name |-> TagConstructor, is |-> Null],
      [name |-> TagButton, is |-> TagDA], [name |-> TagDA, is |-> TagDX] }

\* doc.documentElement.contains(element)
Contains(el) == el.region # "off"

\* element.getAttribute('is') || element.nodeName.toLowerCase()
ResolutionKey(el) ==
    IF el.is # Null /\ el.is # <<>> THEN el.is ELSE ToLowerCase(el.nodeName)

(***************************************************************************)
(* upgrade(element)                                                        *)
(***************************************************************************)
\* the outcomes of one invocation of a lifecycle callback: it returns, it
\* throws, or it calls upgrade() on its own node and then returns
ReadyOutcomes == {"return", "throw", "reenter"}
InsertedOutcomes == {"return", "throw"}
Outcomes == ReadyOutcomes \X InsertedOutcomes
Returns == <<"return", "return">>

\* a bug: a marked node counts as upgraded only once its inserted-callback has
\* run or while it is detached
AlreadyUpgraded_UntilInserted(el) ==
    /\ el.upgraded
    /\ \/ ~Contains(el)
       \/ \E i \in DOMAIN el.calls : el.calls[i].cb = "inserted"

\* a bug: the marker is never consulted
AlreadyUpgraded_Never(el) == FALSE

\* !element.__upgraded__ is false
AlreadyUpgraded(el) == el.upgraded

\* the widget registry[key] is truthy
WidgetFound(el) == InRegistry(ResolutionKey(el))

\* Object.defineProperties(element, undefined) throws
MutationThrows(widget) == ~hasProto /\ widget.rawDescriptors = UndefinedProto

\* element.__proto__ = widget.prototype (an assignment of undefined changes
\* nothing), or Object.defineProperties(element, widget._prototype)
MutatePrototype(el, widget) ==
    IF hasProto
    THEN IF widget.prototype = UndefinedProto THEN el
         ELSE [el EXCEPT !.proto = widget.prototype]
    ELSE [el EXCEPT !.own = widget.rawDescriptors]

\* element.__upgraded__ = true
MarkUpgraded(el) == [el EXCEPT !.upgraded = TRUE]

\* element.readyCallback, element.insertedCallback: an own property, else
\* the prototype's
ExposesReady(el) == el.own.readyCallback \/ el.proto.readyCallback
ExposesInserted(el) == el.own.insertedCallback \/ el.proto.insertedCallback

\* whether the node has the behaviour of a prototype
Behaves(el, proto) == el.proto = proto \/ el.own = proto

\* the record of one invocation: the callback, its argument, what the
\* callback observes of its node when it starts, and what the callback does
CallRecord(el, cb, widget, outcome) ==
    [cb |-> cb, arg |-> widget.prototype, marked |-> el.upgraded,
     behaves |-> Behaves(el, widget.prototype), attached |-> Contains(el),
     outcome |-> outcome]

RECURSIVE upgrade(_, _, _)
RECURSIVE Invoke(_, _, _, _, _)

\* a bug: the inserted-callback is invoked whether or not the node is attached
RunCallbacks_IgnoreAttachment(el, widget, out, depth) ==
    LET r == IF ExposesReady(el)
             THEN Invoke(el, "ready", widget, out[1], depth)
             ELSE [el |-> el, err |-> NoErr]
    IN  IF r.err # NoErr THEN r
        ELSE IF ExposesInserted(r.el)
             THEN Invoke(r.el, "inserted", widget, out[2], depth)
             ELSE r

\* the two callback invocations, lines 88 to 94
RunCallbacks(el, widget, out, depth) ==
    LET r == IF ExposesReady(el)
             THEN Invoke(el, "ready", widget, out[1], depth)
             ELSE [el |-> el, err |-> NoErr]
    IN  IF r.err # NoErr THEN r
        ELSE IF ExposesInserted(r.el) /\ Contains(r.el)
             THEN Invoke(r.el, "inserted", widget, out[2], depth)
             ELSE r

\* callback.call(element, widget.prototype)
Invoke(el, cb, widget, outcome, depth) ==
    LET called == [el EXCEPT !.calls = Append(@, CallRecord(el, cb, widget, outcome))]
    IN  IF outcome = "throw" THEN [el |-> called, err |-> CallbackError]
        ELSE IF outcome = "reenter" /\ depth < MaxReentry
             THEN upgrade(called, Returns, depth + 1)
             ELSE [el |-> called, err |-> NoErr]

\* a bug: the marker is taken back when a callback throws
upgrade_UnmarkOnThrow(el, out, depth) ==
    IF AlreadyUpgraded(el) THEN [el |-> el, err |-> NoErr]
    ELSE IF ~WidgetFound(el) THEN [el |-> el, err |-> NoErr]
    ELSE LET widget == RegistryGet(ResolutionKey(el))
             r == RunCallbacks(MarkUpgraded(MutatePrototype(el, widget)),
                               widget, out, depth)
         IN  IF MutationThrows(widget)
             THEN [el |-> el, err |-> DefinePropertiesError]
             ELSE IF r.err # NoErr
             THEN [el |-> [r.el EXCEPT !.upgraded = FALSE], err |-> r.err]
             ELSE r

\* a bug: the marker is set after the callbacks have run
upgrade_MarkLast(el, out, depth) ==
    IF AlreadyUpgraded(el) THEN [el |-> el, err |-> NoErr]
    ELSE IF ~WidgetFound(el) THEN [el |-> el, err |-> NoErr]
    ELSE LET widget == RegistryGet(ResolutionKey(el))
             r == RunCallbacks(MutatePrototype(el, widget), widget, out, depth)
         IN  IF MutationThrows(widget)
             THEN [el |-> el, err |-> DefinePropertiesError]
             ELSE IF r.err # NoErr THEN r
             ELSE [el |-> MarkUpgraded(r.el), err |-> NoErr]

\* upgrade(element): the node as the call leaves it, and the error it throws
upgrade(el, out, depth) ==
    IF AlreadyUpgraded(el) THEN [el |-> el, err |-> NoErr]
    ELSE IF ~WidgetFound(el) THEN [el |-> el, err |-> NoErr]
    ELSE LET widget == RegistryGet(ResolutionKey(el))
         IN  IF MutationThrows(widget)
             THEN [el |-> el, err |-> DefinePropertiesError]
             ELSE RunCallbacks(MarkUpgraded(MutatePrototype(el, widget)),
                               widget, out, depth)

(***************************************************************************)
(* register(tag, baseElement, extensions...)                               *)
(***************************************************************************)
\* a bug: the check for a tag that is registered already is missing
RegisterError_NoDuplicateCheck(tag, base) ==
    IF ~DescendsFromHTMLElement(base) THEN InvalidBase
    ELSE IF getBaseName(base) = "" THEN UnresolvableBaseName
    ELSE IF getBaseName(base) # "HTMLElement" /\ getBaseName(base) \notin DOMAIN tags
         THEN UnrecognizedBase
    ELSE NoErr

\* the four checks of register, in order; NoErr when all pass
RegisterError(tag, base) ==
    IF InRegistry(tag) THEN DuplicateTag
    ELSE IF ~DescendsFromHTMLElement(base) THEN InvalidBase
    ELSE IF getBaseName(base) = "" THEN UnresolvableBaseName
    ELSE IF getBaseName(base) # "HTMLElement" /\ getBaseName(base) \notin DOMAIN tags
         THEN UnrecognizedBase
    ELSE NoErr

\* config.extends
Extends(baseName) ==
    IF baseName # "HTMLElement" /\ baseName \in DOMAIN tags THEN tags[baseName]
    ELSE Undefined

\* config._prototype: the own-property descriptors of the prototype, taken
\* on the path without native registration and without __proto__
RawDescriptors(proto) ==
    IF ~hasDocumentRegister /\ ~hasProto THEN proto ELSE UndefinedProto

\* the metadata getTagConstructor stores under the tag
TagConfig(baseName, proto) ==
    [prototype |-> proto, extends |-> Extends(baseName),
     rawDescriptors |-> RawDescriptors(proto)]

\* registry[tag] = config
RegistryPut(tag, config) ==
    [k \in DOMAIN registry \cup {tag} |-> IF k = tag THEN config ELSE registry[k]]

\* config.extends ? config.extends + '[is="' + tag + '"]' : tag
Selector(config, tag) ==
    IF config.extends # Undefined
    THEN config.extends \o <<"[", "i", "s", "=", "\"">> \o tag \o <<"\"", "]">>
    ELSE tag

\* a bug: the selector is pushed on the native path too
SelectorsPush_AlsoNative(config, tag) == Append(selectors, Selector(config, tag))

\* selectors.push(...) on the path without native registration
SelectorsPush(config, tag) ==
    IF hasDocumentRegister THEN selectors ELSE Append(selectors, Selector(config, tag))

\* a bug: a successful register marks the nodes of the tag that exist
Register_UpgradesExisting(tag, base, ready, inserted) ==
    LET e == RegisterError(tag, base)
        baseName == getBaseName(base)
        config == TagConfig(baseName, ComposedProto(tag, baseName, ready, inserted))
    IN  /\ last' = Call("register", tag, 0, "none", e)
        /\ registry' = IF e # NoErr THEN registry ELSE RegistryPut(tag, config)
        /\ selectors' = IF e # NoErr THEN selectors ELSE SelectorsPush(config, tag)
        /\ nodes' = [n \in DOMAIN nodes |->
                        IF e = NoErr /\ ResolutionKey(nodes[n]) = tag
                        THEN MarkUpgraded(nodes[n]) ELSE nodes[n]]
        /\ UNCHANGED <<hasDocumentRegister, hasProto, this>>

\* a bug: the metadata is stored before the base type is validated
Register_StoreBeforeValidation(tag, base, ready, inserted) ==
    LET e == RegisterError(tag, base)
        baseName == getBaseName(base)
        config == TagConfig(baseName, ComposedProto(tag, baseName, ready, inserted))
    IN  /\ last' = Call("register", tag, 0, "none", e)
        /\ registry' = IF e = DuplicateTag THEN registry ELSE RegistryPut(tag, config)
        /\ selectors' = IF e # NoErr THEN selectors ELSE SelectorsPush(config, tag)
        /\ UNCHANGED <<hasDocumentRegister, hasProto, nodes, this>>

\* register(): a failed check throws before anything is composed or stored
Register(tag, base, ready, inserted) ==
    LET e == RegisterError(tag, base)
        baseName == getBaseName(base)
        config == TagConfig(baseName, ComposedProto(tag, baseName, ready, inserted))
    IN  /\ last' = Call("register", tag, 0, "none", e)
        /\ registry' = IF e # NoErr THEN registry ELSE RegistryPut(tag, config)
        /\ selectors' = IF e # NoErr THEN selectors ELSE SelectorsPush(config, tag)
        /\ UNCHANGED <<hasDocumentRegister, hasProto, nodes, this>>

\* What register() returned for a registered tag, as a later register() reads
\* it.  With native registration it is the constructor doc.register made, whose
\* prototype is the composed prototype, with its shadowed _ctor and _baseName
\* and HTMLElement in its chain.  Without, it is function () { return
\* createElement(tag); }: an anonymous function with a plain prototype, whose
\* text does not match the pattern of getBaseName.
Returned(tag) ==
    IF hasDocumentRegister
    THEN [kind |-> "constructor", tag |-> tag,
          protoBaseName |-> registry[tag].prototype.baseName,
          protoCtor |-> registry[tag].prototype.ctor,
          name |-> "", textName |-> "", isElement |-> TRUE]
    ELSE [kind |-> "factory", tag |-> tag,
          protoBaseName |-> "", protoCtor |-> Undefined,
          name |-> "", textName |-> "", isElement |-> FALSE]

\* restore(extension): the constructor shadowed in the prototype, else the
\* extension itself
restore(extension) ==
    IF extension.protoCtor # Undefined
    THEN [kind |-> "composed", tag |-> extension.protoCtor]
    ELSE [kind |-> extension.kind, tag |-> extension.tag]

\* register(tag, widget, ...) with the value an earlier register returned as
\* the base type
RegisterNested(tag, baseTag, ready, inserted) ==
    /\ baseTag \in DOMAIN registry
    /\ tag # baseTag
    /\ Register(tag, Returned(baseTag), ready, inserted)

(***************************************************************************)
(* createElement(tag), reached through the factory register() returns      *)
(***************************************************************************)
\* registry[tag] ? registry[tag].extends : null
CreateBase(tag) == IF InRegistry(tag) THEN RegistryGet(tag).extends ELSE Null

\* the element before upgrade(element) is called on it
NewElement(tag) ==
    LET base == CreateBase(tag)
    IN  IF base # Null /\ base # Undefined
        THEN SetIsAttribute(DocCreateElement(base), tag)
        ELSE DocCreateElement(tag)

\* createElement(tag) on any tag string
CreateElement(tag, out, limit) ==
    /\ ~hasDocumentRegister
    /\ Len(nodes) < limit
    /\ LET r == upgrade(NewElement(tag), out, 0)
       IN  /\ nodes' = Append(nodes, r.el)
           /\ last' = Call("createElement", tag, Len(nodes) + 1, "none", r.err)
    /\ UNCHANGED <<hasDocumentRegister, hasProto, registry, selectors, this>>

\* the factory register() returned for a tag: function () { return
\* createElement(tag); }
FactoryCall(tag, out, limit) ==
    /\ tag \in DOMAIN registry
    /\ CreateElement(tag, out, limit)

(***************************************************************************)
(* parse(root)                                                             *)
(***************************************************************************)
\* the position of the first "[" of a selector, 0 when it has none
BracketAt(sel) ==
    IF \E i \in DOMAIN sel : sel[i] = "["
    THEN CHOOSE i \in DOMAIN sel :
            sel[i] = "[" /\ \A j \in 1..(i - 1) : sel[j] # "["
    ELSE 0

\* whether an element matches one selector: a type selector, which in an
\* HTML document compares names without case, with an optional [is="..."]
SelectorMatches(sel, el) ==
    LET b == BracketAt(sel)
    IN  IF b = 0
        THEN ToLowerCase(sel) = ToLowerCase(el.nodeName)
        ELSE /\ ToLowerCase(SubSeq(sel, 1, b - 1)) = ToLowerCase(el.nodeName)
             /\ el.is = SubSeq(sel, b + 5, Len(sel) - 2)

\* whether a node lies under the root handed to parse ("doc": no root given)
UnderRoot(el, root) == IF root = "doc" THEN el.region # "off" ELSE el.region = root

\* a bug: the query is always made on the whole document
QuerySelectorAll_IgnoresRoot(root) ==
    SelectSeq([i \in DOMAIN nodes |-> i],
              LAMBDA i : /\ UnderRoot(nodes[i], "doc")
                         /\ \E k \in DOMAIN selectors :
                                SelectorMatches(selectors[k], nodes[i]))

\* (root || doc).querySelectorAll(selectors): the matching nodes under root,
\* in document order
QuerySelectorAll(root) ==
    SelectSeq([i \in DOMAIN nodes |-> i],
              LAMBDA i : /\ UnderRoot(nodes[i], root)
                         /\ \E k \in DOMAIN selectors :
                                SelectorMatches(selectors[k], nodes[i]))

RECURSIVE ParseLoop(_, _, _)
RECURSIVE ParseLoop_ContinueAfterThrow(_, _, _)
RECURSIVE ParseLoop_MarkOnly(_, _, _)
\* a bug: the loop sets the marker on every match and does not call upgrade
ParseLoop_MarkOnly(ns, matches, outs) ==
    IF matches = <<>> THEN [nodes |-> ns, err |-> NoErr, n |-> 0]
    ELSE ParseLoop_MarkOnly([ns EXCEPT ![Head(matches)] = MarkUpgraded(@)],
                            Tail(matches), outs)

\* a bug: the loop goes on to the next node when an upgrade throws
ParseLoop_ContinueAfterThrow(ns, matches, outs) ==
    IF matches = <<>> THEN [nodes |-> ns, err |-> NoErr, n |-> 0]
    ELSE LET n == Head(matches)
             r == upgrade(ns[n], outs[n], 0)
             after == [ns EXCEPT ![n] = r.el]
             rest == ParseLoop_ContinueAfterThrow(after, Tail(matches), outs)
         IN  IF r.err # NoErr THEN [nodes |-> rest.nodes, err |-> r.err, n |-> n]
             ELSE rest

\* while (node = nodes[idx++]) { upgrade(node); }: the nodes as the loop
\* leaves them, the error that ended it and the node whose upgrade threw it
ParseLoop(ns, matches, outs) ==
    IF matches = <<>> THEN [nodes |-> ns, err |-> NoErr, n |-> 0]
    ELSE LET n == Head(matches)
             r == upgrade(ns[n], outs[n], 0)
             after == [ns EXCEPT ![n] = r.el]
         IN  IF r.err # NoErr THEN [nodes |-> after, err |-> r.err, n |-> n]
             ELSE ParseLoop(after, Tail(matches), outs)

Parse(root, outs) ==
    /\ IF hasDocumentRegister
       THEN /\ last' = Call("parse", Undefined, 0, root, NoErr)
            /\ UNCHANGED nodes
       ELSE IF selectors = <<>>
       THEN /\ last' = Call("parse", Undefined, 0, root, SelectorSyntaxError)
            /\ UNCHANGED nodes
       ELSE LET r == ParseLoop(nodes, QuerySelectorAll(root), outs)
            IN  /\ nodes' = r.nodes
                /\ last' = Call("parse", Undefined, r.n, root, r.err)
    /\ UNCHANGED <<hasDocumentRegister, hasProto, registry, selectors, this>>

(***************************************************************************)
(* The exported upgrade(), called on a node, and what the host document    *)
(* does with nodes.                                                        *)
(***************************************************************************)
Upgrade(n, out) ==
    /\ n \in DOMAIN nodes
    /\ LET r == upgrade(nodes[n], out, 0)
       IN  /\ nodes' = [nodes EXCEPT ![n] = r.el]
           /\ last' = Call("upgrade", Undefined, n, "none", r.err)
    /\ UNCHANGED <<hasDocumentRegister, hasProto, registry, selectors, this>>

\* the host creates a node from markup or through the DOM
HostCreate(shape, region, limit) ==
    /\ Len(nodes) < limit
    /\ nodes' = Append(nodes,
                       [SetIsAttribute(DocCreateElement(shape.name), shape.is)
                            EXCEPT !.region = region])
    /\ last' = HostCall
    /\ UNCHANGED <<hasDocumentRegister, hasProto, registry, selectors, this>>

\* the host inserts a detached node into the document
Attach(n, region) ==
    /\ n \in DOMAIN nodes
    /\ nodes[n].region = "off"
    /\ region # "off"
    /\ nodes' = [nodes EXCEPT ![n].region = region]
    /\ last' = HostCall
    /\ UNCHANGED <<hasDocumentRegister, hasProto, registry, selectors, this>>

(***************************************************************************)
(* Descriptor factories.  this is the object a descriptor is installed on: *)
(* node is whether this[nodeName] holds a sub-node, attr is the attribute  *)
(* of that sub-node (null when it has none), inThis is whether the shadow  *)
(* property exists on the object and shadow is its value, enumerable is    *)
(* the flag of the descriptor; op, arg, result and err record the last     *)
(* access and how it ended.                                                *)
(***************************************************************************)
\* JavaScript values: the type and the text String(value) gives
Str(s) == [t |-> "string", v |-> s]
NullValue == [t |-> "null", v |-> "null"]
UndefinedValue == [t |-> "undefined", v |-> "undefined"]
NumberZero == [t |-> "number", v |-> "0"]
NumberOne == [t |-> "number", v |-> "1"]
FalseValue == [t |-> "boolean", v |-> "false"]
TrueValue == [t |-> "boolean", v |-> "true"]

\* the values a property is set to
Values ==
    {Str(""), Str("a"), Str("b"), Str("0"), Str("false"), Str("null"), NullValue,
     UndefinedValue, NumberZero, NumberOne, FalseValue, TrueValue}

\* what getAttribute returns of a sub-node the host supplies or changes
AttributeValues == {NullValue, Str(""), Str("a"), Str("b")}

\* if (value)
Truthy(v) == v \notin {Str(""), NullValue, UndefinedValue, NumberZero, FalseValue}

\* the string setAttribute stores for a value
StringOf(v) == Str(v.v)

UndefinedNodeError == "Error: Cannot set value of attribute on undefined node."

\* an object with no sub-node and no shadow property, not accessed yet
NewObject ==
    [node |-> FALSE, attr |-> NullValue, inThis |-> FALSE, shadow |-> UndefinedValue,
     enumerable |-> TRUE,
     op |-> "none", arg |-> UndefinedValue, result |-> UndefinedValue, err |-> NoErr]

\* enumerable === undefined ? true : enumerable
Enumerable(enumerable) ==
    IF enumerable = UndefinedValue THEN TRUE ELSE enumerable = TrueValue

\* the record of an access on the object; a read keeps arg, the value of the
\* write before it
Accessed(o, op, arg, result, e) ==
    [o EXCEPT !.op = op, !.arg = arg, !.result = result, !.err = e]

\* a bug: the attribute is written whatever the value
WriteAttribute_NeverRemoves(o, v) == [o EXCEPT !.attr = StringOf(v)]

\* this[nodeName].setAttribute(attributeName, value) if value is truthy,
\* this[nodeName].removeAttribute(attributeName) otherwise
WriteAttribute(o, v) ==
    [o EXCEPT !.attr = IF Truthy(v) THEN StringOf(v) ELSE NullValue]

\* get of getDomAttributeDescriptor
DomAttributeGet(o) ==
    Accessed(o, "get", o.arg, IF o.node THEN o.attr ELSE NullValue, NoErr)

\* set of getDomAttributeDescriptor
DomAttributeSet(o, v) ==
    IF o.node
    THEN Accessed(WriteAttribute(o, v), "set", v, UndefinedValue, NoErr)
    ELSE Accessed(o, "set", v, UndefinedValue, UndefinedNodeError)

\* this[shadowPropertyName]
ShadowValue(o) == IF o.inThis THEN o.shadow ELSE UndefinedValue

\* shadow(this, shadowName, value): defines the hidden property
\* '_' + shadowName with the value, and returns the value
shadow(o, v) == [o EXCEPT !.inThis = TRUE, !.shadow = v]

\* a bug: the getter reads the shadow value even when a sub-node exists
ShadowAttributeGet_ShadowFirst(o) ==
    LET value == IF Truthy(ShadowValue(o)) THEN ShadowValue(o) ELSE NullValue
    IN  IF value # ShadowValue(o)
        THEN IF value = NullValue /\ o.inThis
             THEN Accessed(o, "get", o.arg, ShadowValue(o), NoErr)
             ELSE Accessed(shadow(o, value), "get", o.arg, value, NoErr)
        ELSE Accessed(o, "get", o.arg, value, NoErr)

\* get of getShadowDomAttributeDescriptor
ShadowAttributeGet(o) ==
    LET value == IF o.node THEN o.attr
                 ELSE IF Truthy(ShadowValue(o)) THEN ShadowValue(o) ELSE NullValue
    IN  IF value # ShadowValue(o)
        THEN IF value = NullValue /\ o.inThis
             THEN Accessed(o, "get", o.arg, ShadowValue(o), NoErr)
             ELSE Accessed(shadow(o, value), "get", o.arg, value, NoErr)
        ELSE Accessed(o, "get", o.arg, value, NoErr)

\* a bug: the setter throws when there is no sub-node, as the setter of
\* getDomAttributeDescriptor does
ShadowAttributeSet_NeedsNode(o, v) ==
    IF o.node
    THEN Accessed(WriteAttribute(IF v # ShadowValue(o) THEN shadow(o, v) ELSE o, v),
                  "set", v, UndefinedValue, NoErr)
    ELSE Accessed(o, "set", v, UndefinedValue, UndefinedNodeError)

\* set of getShadowDomAttributeDescriptor
ShadowAttributeSet(o, v) ==
    LET shadowed == IF v # ShadowValue(o) THEN shadow(o, v) ELSE o
    IN  Accessed(IF shadowed.node THEN WriteAttribute(shadowed, v) ELSE shadowed,
                 "set", v, UndefinedValue, NoErr)

\* reading and writing a property defined with getDomAttributeDescriptor
GetDomAttribute ==
    /\ this' = DomAttributeGet(this)
    /\ UNCHANGED <<hasDocumentRegister, hasProto, registry, selectors, nodes, last>>

SetDomAttribute(v) ==
    /\ this' = DomAttributeSet(this, v)
    /\ UNCHANGED <<hasDocumentRegister, hasProto, registry, selectors, nodes, last>>

\* reading and writing a property defined with getShadowDomAttributeDescriptor
GetShadowAttribute ==
    /\ this' = ShadowAttributeGet(this)
    /\ UNCHANGED <<hasDocumentRegister, hasProto, registry, selectors, nodes, last>>

SetShadowAttribute(v) ==
    /\ this' = ShadowAttributeSet(this, v)
    /\ UNCHANGED <<hasDocumentRegister, hasProto, registry, selectors, nodes, last>>

\* the widget gets a sub-node, carrying the attribute or not
AttachSubNode(a) ==
    /\ ~this.node
    /\ this' = Accessed([this EXCEPT !.node = TRUE, !.attr = a],
                        "host", UndefinedValue, UndefinedValue, NoErr)
    /\ UNCHANGED <<hasDocumentRegister, hasProto, registry, selectors, nodes, last>>

\* the widget loses its sub-node
DetachSubNode ==
    /\ this.node
    /\ this' = Accessed([this EXCEPT !.node = FALSE, !.attr = NullValue],
                        "host", UndefinedValue, UndefinedValue, NoErr)
    /\ UNCHANGED <<hasDocumentRegister, hasProto, registry, selectors, nodes, last>>

\* the attribute of the sub-node is changed directly, not through the property
ChangeAttribute(a) ==
    /\ this.node
    /\ this.attr # a
    /\ this' = Accessed([this EXCEPT !.attr = a],
                        "host", UndefinedValue, UndefinedValue, NoErr)
    /\ UNCHANGED <<hasDocumentRegister, hasProto, registry, selectors, nodes, last>>

(***************************************************************************)
(* The specification.                                                      *)
(***************************************************************************)
Init ==
    /\ hasDocumentRegister \in BOOLEAN
    /\ hasProto \in BOOLEAN
    /\ registry = <<>>
    /\ selectors = <<>>
    /\ nodes = <<>>
    /\ last = NoCall
    /\ this = NewObject

\* the register() calls of the specifications of upgrade and parse
RegisterCalls ==
    { [tag |-> TagDA, base |-> b, ready |-> r, inserted |-> i] :
        b \in {HTMLElementBase, HTMLButtonBase}, r \in BOOLEAN, i \in BOOLEAN }
    \cup { [tag |-> TagDB, base |-> b, ready |-> TRUE, inserted |-> TRUE] :
        b \in {HTMLElementBase, HTMLButtonBase} }
    \cup { [tag |-> TagConstructor, base |-> HTMLElementBase, ready |-> FALSE,
            inserted |-> FALSE],
           [tag |-> TagDB, base |-> ObjectBase, ready |-> FALSE, inserted |-> FALSE] }

\* register() alone, with every tag, base type and behaviour
NextRegister ==
    \E tag \in Tags, base \in Bases, ready \in BOOLEAN, inserted \in BOOLEAN :
        Register(tag, base, ready, inserted)

SpecRegister == Init /\ [][NextRegister]_vars

\* the outcomes of the callbacks of one node during a parse
ParseOutcomes == {<<"return", "return">>, <<"throw", "return">>, <<"return", "throw">>}

\* the outcomes of the callbacks of the nodes 1..limit during one parse: at
\* most one node has a callback that throws
ParsePlans(limit) ==
    { outs \in [1..limit -> ParseOutcomes] :
        Cardinality({n \in 1..limit : outs[n] # Returns}) <= 1 }

\* every operation, on a document of MaxUpgradeNodes nodes
Next ==
    \/ \E c \in RegisterCalls : Register(c.tag, c.base, c.ready, c.inserted)
    \/ \E tag \in Tags, out \in Outcomes : FactoryCall(tag, out, MaxUpgradeNodes)
    \/ \E root \in {"sub", "doc"}, outs \in ParsePlans(MaxUpgradeNodes) :
          Parse(root, outs)
    \/ \E n \in 1..MaxUpgradeNodes, out \in Outcomes : Upgrade(n, out)
    \/ \E shape \in NodeShapes, region \in Regions :
          HostCreate(shape, region, MaxUpgradeNodes)
    \/ \E n \in 1..MaxUpgradeNodes, region \in Regions : Attach(n, region)

Spec == Init /\ [][Next]_vars

\* the register() calls and the host's nodes of the specification of parse
ParseRegisterCalls ==
    { [tag |-> TagDA, base |-> HTMLElementBase, ready |-> TRUE, inserted |-> TRUE],
      [tag |-> TagDA, base |-> HTMLButtonBase, ready |-> TRUE, inserted |-> TRUE],
      [tag |-> TagDB, base |-> HTMLElementBase, ready |-> TRUE, inserted |-> TRUE] }

ParseNodes ==
    { [name |-> TagDA, is |-> Null, region |-> "sub"],
      [name |-> TagDA, is |-> Null, region |-> "doc"],
      [name |-> TagButton, is |-> TagDA, region |-> "sub"],
      [name |-> TagDB, is |-> Null, region |-> "sub"],
      [name |-> TagDA, is |-> TagDX, region |-> "sub"] }

\* registration, the host's nodes and parse, on a document of MaxNodes nodes
NextParse ==
    \/ \E c \in ParseRegisterCalls : Register(c.tag, c.base, c.ready, c.inserted)
    \/ \E root \in {"sub", "doc"}, outs \in ParsePlans(MaxNodes) : Parse(root, outs)
    \/ \E s \in ParseNodes :
          HostCreate([name |-> s.name, is |-> s.is], s.region, MaxNodes)

SpecParse == Init /\ [][NextParse]_vars

\* the register() calls and the host's nodes of the specification of the
\* callers of upgrade
ThrowRegisterCalls ==
    { [tag |-> TagDA, base |-> HTMLElementBase, ready |-> TRUE, inserted |-> TRUE] }

ThrowNodes ==
    { [name |-> TagDA, is |-> Null, region |-> "sub"],
      [name |-> TagDA, is |-> TagDX, region |-> "sub"] }

\* the three callers of upgrade (parse, the factory and the exported upgrade)
\* with callbacks that throw, on a document of MaxNodes nodes
NextThrow ==
    \/ \E c \in ThrowRegisterCalls : Register(c.tag, c.base, c.ready, c.inserted)
    \/ \E root \in {"sub", "doc"}, outs \in ParsePlans(MaxNodes) : Parse(root, outs)
    \/ \E s \in ThrowNodes :
          HostCreate([name |-> s.name, is |-> s.is], s.region, MaxNodes)
    \/ \E n \in 1..MaxNodes, out \in ParseOutcomes : Upgrade(n, out)
    \/ \E c \in ThrowRegisterCalls, out \in ParseOutcomes :
          FactoryCall(c.tag, out, MaxNodes)

SpecThrow == Init /\ [][NextThrow]_vars

\* createElement() applied to every tag string, registered or not
NextCreate ==
    \/ \E c \in RegisterCalls : Register(c.tag, c.base, c.ready, c.inserted)
    \/ \E tag \in Tags, out \in Outcomes : CreateElement(tag, out, MaxUpgradeNodes)

SpecCreate == Init /\ [][NextCreate]_vars
\* the flags as this platform has them, for the specifications of the
\* descriptors, which read neither
InitDescriptor ==
    /\ hasDocumentRegister = FALSE
    /\ hasProto = TRUE
    /\ registry = <<>>
    /\ selectors = <<>>
    /\ nodes = <<>>
    /\ last = NoCall
    /\ \E enumerable \in {UndefinedValue, TrueValue, FalseValue} :
          this = [NewObject EXCEPT !.enumerable = Enumerable(enumerable)]

\* a property defined with getDomAttributeDescriptor, and its sub-node
NextDomAttribute ==
    \/ GetDomAttribute
    \/ \E v \in Values : SetDomAttribute(v)
    \/ \E a \in AttributeValues : AttachSubNode(a)
    \/ DetachSubNode
    \/ \E a \in AttributeValues : ChangeAttribute(a)

SpecDomAttribute == InitDescriptor /\ [][NextDomAttribute]_vars

\* a property defined with getShadowDomAttributeDescriptor, and its sub-node
NextShadowAttribute ==
    \/ GetShadowAttribute
    \/ \E v \in Values : SetShadowAttribute(v)
    \/ \E a \in AttributeValues : AttachSubNode(a)
    \/ DetachSubNode
    \/ \E a \in AttributeValues : ChangeAttribute(a)

SpecShadowAttribute == InitDescriptor /\ [][NextShadowAttribute]_vars
\* registration of d-a on a native base type, and of d-x on what the
\* registration of d-a returned
NextNested ==
    \/ \E base \in {HTMLElementBase, HTMLButtonBase, ObjectBase},
          ready \in BOOLEAN, inserted \in BOOLEAN :
          Register(TagDA, base, ready, inserted)
    \/ \E ready \in BOOLEAN, inserted \in BOOLEAN :
          RegisterNested(TagDX, TagDA, ready, inserted)

SpecNested == Init /\ [][NextNested]_vars
\* the register() calls and the host's nodes of the specification that
\* compares parse with upgrade: nodes that match a selector, and nodes whose
\* is attribute names a widget whose selector they do not match
MatchRegisterCalls ==
    { [tag |-> TagDA, base |-> HTMLElementBase, ready |-> TRUE, inserted |-> TRUE],
      [tag |-> TagDA, base |-> HTMLButtonBase, ready |-> TRUE, inserted |-> TRUE],
      [tag |-> TagDX, base |-> HTMLElementBase, ready |-> TRUE, inserted |-> FALSE] }

MatchNodes ==
    { [name |-> TagDA, is |-> Null], [name |-> TagDX, is |-> Null],
      [name |-> TagDiv, is |-> TagDA], [name |-> TagDA, is |-> TagDX] }

\* registration, the host's nodes and parse, on a document of MaxMatchNodes
\* nodes
NextMatch ==
    \/ \E c \in MatchRegisterCalls : Register(c.tag, c.base, c.ready, c.inserted)
    \/ \E root \in {"sub", "doc"}, outs \in ParsePlans(MaxMatchNodes) : Parse(root, outs)
    \/ \E s \in MatchNodes, region \in {"sub", "doc"} :
          HostCreate(s, region, MaxMatchNodes)

SpecMatch == Init /\ [][NextMatch]_vars
(***************************************************************************)
(* Properties.                                                             *)
(***************************************************************************)
\* how often a callback has been invoked on a node
CallCount(el, cb) == Cardinality({i \in DOMAIN el.calls : el.calls[i].cb = cb})

\* the callbacks invoked on a node, in order
CallNames(el) == [i \in DOMAIN el.calls |-> el.calls[i].cb]

\* a node that no upgrade has touched
Plain(el) ==
    /\ ~el.upgraded
    /\ el.proto = NativeProto
    /\ el.own = UndefinedProto
    /\ el.calls = <<>>

\* node n gets the marker in this step
BecameUpgraded(n) ==
    /\ n \in DOMAIN nodes'
    /\ nodes'[n].upgraded
    /\ (n \in DOMAIN nodes => ~nodes[n].upgraded)

\* C1: once register(T, ...) has succeeded, every further register(T, ...)
\* call, whatever its base type and behaviours, fails with the duplicate-tag
\* error and leaves the Registry and the Selector List as they were.
C1_Uniqueness ==
    [][\A tag \in DOMAIN registry :
          (last'.op = "register" /\ last'.tag = tag) =>
              /\ last'.err = DuplicateTag
              /\ registry' = registry
              /\ selectors' = selectors]_vars

\* a second register of a tag that is registered has failed as a duplicate
C1_Witness ==
    /\ last.op = "register"
    /\ last.tag \in DOMAIN registry
    /\ last.err = DuplicateTag
    /\ Len(selectors) > 0

\* C3: a register call that fails a check (duplicate tag, base type not
\* descending from HTMLElement, class name not determined, class name not
\* recognised) leaves the Registry and the Selector List as they were.
C3_FailedRegisterChangesNothing ==
    [][(last'.op = "register" /\ last'.err # NoErr) =>
          (registry' = registry /\ selectors' = selectors)]_vars

\* a register with a base type outside HTMLElement has been rejected, with
\* other tags registered
C3_Witness ==
    /\ last.op = "register"
    /\ last.err = InvalidBase
    /\ last.tag \notin DOMAIN registry
    /\ registry # <<>>
    /\ selectors # <<>>

\* C2: once a node whose resolution key is a registered tag carries the
\* marker, no later call changes its marker, prototype, copied properties or
\* callback record; a second upgrade right after a first changes nothing; and
\* across all calls each callback is invoked at most once on a node.
C2_IdempotentUpgrade ==
    [][/\ \A n \in DOMAIN nodes :
            /\ (nodes[n].upgraded /\ ResolutionKey(nodes[n]) \in DOMAIN registry) =>
                  /\ nodes'[n].upgraded
                  /\ nodes'[n].proto = nodes[n].proto
                  /\ nodes'[n].own = nodes[n].own
                  /\ nodes'[n].calls = nodes[n].calls
            /\ ( /\ last.op = "upgrade" /\ last.n = n
                 /\ last'.op = "upgrade" /\ last'.n = n
                 /\ ResolutionKey(nodes[n]) \in DOMAIN registry ) =>
                  nodes'[n] = nodes[n]
       /\ \A n \in DOMAIN nodes' :
            /\ CallCount(nodes'[n], "ready") <= 1
            /\ CallCount(nodes'[n], "inserted") <= 1]_vars

\* upgrade has been called on a node that was upgraded while detached and
\* attached since: a second call, which did not invoke the inserted-callback
C2_Witness ==
    /\ last.op = "upgrade"
    /\ last.n \in DOMAIN nodes
    /\ LET el == nodes[last.n]
       IN  /\ el.upgraded
           /\ ResolutionKey(el) \in DOMAIN registry
           /\ Contains(el)
           /\ ExposesInserted(el)
           /\ CallNames(el) = <<"ready">>
           /\ ~el.calls[1].attached
           /\ el.calls[1].outcome = "return"

\* the node createElement(tag) makes for a tag, before upgrade
IsNodeOfTag(el, tag) ==
    \/ el.is = tag
    \/ el.is = Null /\ el.nodeName = DocCreateElement(tag).nodeName

\* C4: for every tag whose register returned, the factory returns a node with
\* the marker and the widget's prototype, and upgrade of a node of that tag
\* name, or carrying is=tag, upgrades it to that widget.
C4_Resolvable ==
    /\ (last.op = "createElement" /\ last.tag \in DOMAIN registry /\ last.err = NoErr) =>
          /\ nodes[last.n].upgraded
          /\ Behaves(nodes[last.n], registry[last.tag].prototype)
    /\ (last.op = "upgrade" /\ last.err = NoErr) =>
          \A tag \in DOMAIN registry :
              IsNodeOfTag(nodes[last.n], tag) =>
                  /\ nodes[last.n].upgraded
                  /\ Behaves(nodes[last.n], registry[tag].prototype)

C7_UnregisteredKeyNoOp ==
    \A n \in DOMAIN nodes :
        ResolutionKey(nodes[n]) \notin DOMAIN registry => Plain(nodes[n])

\* C8: every callback starts on a node that carries the marker and has the
\* widget's behaviour, the marker is only set on a node whose prototype
\* mutation has happened, and an upgrade called from inside a callback of the
\* node invokes no callback again.
C8_MarkerBeforeCallbacks ==
    \A n \in DOMAIN nodes :
        /\ \A i \in DOMAIN nodes[n].calls :
              nodes[n].calls[i].marked /\ nodes[n].calls[i].behaves
        /\ nodes[n].upgraded =>
              (nodes[n].proto # NativeProto \/ nodes[n].own # UndefinedProto)
        /\ (\E i \in DOMAIN nodes[n].calls : nodes[n].calls[i].outcome = "reenter") =>
              /\ CallCount(nodes[n], "ready") = 1
              /\ CallCount(nodes[n], "inserted") <= 1

\* a ready-callback has called upgrade on its own node, and the
\* inserted-callback has run after it
C8_Witness ==
    \E n \in DOMAIN nodes :
        /\ nodes[n].upgraded
        /\ CallNames(nodes[n]) = <<"ready", "inserted">>
        /\ nodes[n].calls[1].outcome = "reenter"

\* C9: in the upgrade that marks a node, the ready-callback is invoked first
\* if the node exposes one, then, the ready-callback having returned, the
\* inserted-callback if and only if the node exposes one and is attached;
\* both get the widget's prototype, and when upgrade returns both have
\* returned.
C9_LifecycleOrder ==
    [][\A n \in DOMAIN nodes' :
          BecameUpgraded(n) =>
              LET el == nodes'[n]
                  readyThrew == \E i \in DOMAIN el.calls :
                                   el.calls[i].cb = "ready" /\ el.calls[i].outcome = "throw"
              IN  /\ CallNames(el) =
                        (IF ExposesReady(el) THEN <<"ready">> ELSE <<>>) \o
                        (IF ExposesInserted(el) /\ Contains(el) /\ ~readyThrew
                         THEN <<"inserted">> ELSE <<>>)
                  /\ \A i \in DOMAIN el.calls :
                        el.calls[i].arg = RegistryGet(ResolutionKey(el)).prototype
                  /\ last'.err = NoErr =>
                        \A i \in DOMAIN el.calls : el.calls[i].outcome # "throw"]_vars

\* an attached node has been upgraded by a call that returned, with both
\* callbacks invoked in order
C9_Witness ==
    /\ last.op \in {"upgrade", "parse"}
    /\ last.err = NoErr
    /\ \E n \in DOMAIN nodes :
          /\ nodes[n].upgraded
          /\ Contains(nodes[n])
          /\ CallNames(nodes[n]) = <<"ready", "inserted">>
          /\ nodes[n].calls[2].attached

\* whether a node matches the selector of a registered widget: its tag name
\* for a new element, the native tag and is=tag for an extension
MatchesWidget(el, tag) ==
    IF registry[tag].extends = Undefined
    THEN ToLowerCase(el.nodeName) = ToLowerCase(tag)
    ELSE /\ ToLowerCase(el.nodeName) = registry[tag].extends
         /\ el.is = tag

\* the nodes under the root of the parse that match a selector
Matched(root) ==
    {n \in DOMAIN nodes : /\ UnderRoot(nodes[n], root)
                          /\ \E tag \in DOMAIN registry : MatchesWidget(nodes[n], tag)}

\* the matched nodes the parse of this step reached: all of them, or those up
\* to the node whose upgrade threw
Visited ==
    {n \in Matched(last'.root) : last'.n = 0 \/ n <= last'.n}

\* C5 as claimed: without native registration, parse(root) sets the marker on
\* exactly the un-upgraded nodes under root that match a selector, and leaves
\* every other node untouched.
C5_ParseMarksEveryMatch ==
    [][(last'.op = "parse" /\ ~hasDocumentRegister) =>
          \A n \in DOMAIN nodes :
              /\ nodes'[n].upgraded = (nodes[n].upgraded \/ n \in Matched(last'.root))
              /\ n \notin Matched(last'.root) => nodes'[n] = nodes[n]]_vars

\* C5 as amended: parse(root) calls upgrade, in document order, on the nodes
\* under root that match a selector, until a call throws; a node it does not
\* reach is left untouched, a node it reaches whose resolution key is a
\* registered tag carries the marker afterwards, and a node it reaches whose
\* resolution key names nothing in the registry is left untouched.  With an
\* empty Selector List the query throws and no node is touched.
C5_ParseScan ==
    [][(last'.op = "parse" /\ ~hasDocumentRegister) =>
          /\ \A n \in DOMAIN nodes :
                /\ n \notin Visited => nodes'[n] = nodes[n]
                /\ (n \in Visited /\ ResolutionKey(nodes[n]) \in DOMAIN registry) =>
                      nodes'[n].upgraded
                /\ (n \in Visited /\ ~InRegistry(ResolutionKey(nodes[n]))) =>
                      nodes'[n] = nodes[n]
          /\ last'.n # 0 => (last'.n \in Matched(last'.root) /\ last'.err # NoErr)
          /\ last'.n = 0 =>
                last'.err = (IF selectors = <<>> THEN SelectorSyntaxError ELSE NoErr)
          /\ selectors = <<>> => nodes' = nodes]_vars

\* a parse of the subtree has returned: it upgraded a matching node, left a
\* matching node whose is attribute names no widget untouched, and left a
\* matching node outside the subtree untouched
C5_Witness ==
    /\ last.op = "parse" /\ last.root = "sub" /\ last.err = NoErr
    /\ ~hasDocumentRegister
    /\ Len(nodes) = 3
    /\ \E a, b, c \in DOMAIN nodes :
          /\ a \in Matched("sub") /\ nodes[a].upgraded
          /\ ResolutionKey(nodes[a]) \in DOMAIN registry
          /\ b \in Matched("sub") /\ Plain(nodes[b])
          /\ ~InRegistry(ResolutionKey(nodes[b]))
          /\ c \in Matched("doc") /\ nodes[c].region = "doc" /\ Plain(nodes[c])

\* a callback invoked in this step threw
CallbackThrew(n) ==
    /\ n \in DOMAIN nodes'
    /\ \E i \in DOMAIN nodes'[n].calls :
          /\ nodes'[n].calls[i].outcome = "throw"
          /\ (n \in DOMAIN nodes => i \notin DOMAIN nodes[n].calls)

\* C10 as claimed: an exception of a callback leaves upgrade and reaches the
\* caller; in a parse, the matched nodes before the node that threw are
\* upgraded and the matched nodes after it are untouched.
C10_ThrowAbortsParse ==
    [][\A t \in DOMAIN nodes' :
          CallbackThrew(t) =>
              /\ last'.err = CallbackError
              /\ last'.n = t
              /\ last'.op = "parse" =>
                    \A n \in Matched(last'.root) :
                        /\ n < t => nodes'[n].upgraded
                        /\ n > t => nodes'[n] = nodes[n]]_vars

\* C10 as amended: an exception of a callback leaves upgrade and reaches the
\* caller; in a parse, the matched nodes before the node that threw whose
\* resolution key is a registered tag are upgraded, those whose resolution
\* key names nothing in the registry are untouched, the matched nodes after
\* it are untouched, and the node whose callback threw carries the marker.
C10_ThrowPropagates ==
    [][\A t \in DOMAIN nodes' :
          CallbackThrew(t) =>
              /\ last'.err = CallbackError
              /\ last'.n = t
              /\ nodes'[t].upgraded
              /\ last'.op = "parse" =>
                    \A n \in Matched(last'.root) :
                        /\ (n < t /\ ResolutionKey(nodes[n]) \in DOMAIN registry) =>
                              nodes'[n].upgraded
                        /\ (n < t /\ ~InRegistry(ResolutionKey(nodes[n]))) =>
                              nodes'[n] = nodes[n]
                        /\ n > t => nodes'[n] = nodes[n]]_vars

\* a parse has been ended by the ready-callback of the second of three
\* matching nodes: the first is upgraded, the third is plain
C10_Witness ==
    /\ last.op = "parse" /\ last.err = CallbackError /\ last.n = 2
    /\ Len(nodes) = 3
    /\ Matched(last.root) = {1, 2, 3}
    /\ nodes[1].upgraded /\ CallNames(nodes[1]) = <<"ready", "inserted">>
    /\ nodes[2].upgraded /\ CallNames(nodes[2]) = <<"ready">>
    /\ nodes[2].calls[1].outcome = "throw"
    /\ ResolutionKey(nodes[3]) \in DOMAIN registry
    /\ Plain(nodes[3])

\* C11 as claimed: with the sub-node present, setting the property to a string
\* V and then reading it yields V, and setting it to a falsy value removes the
\* attribute, so that reading yields null.
C11_RoundTripEveryString ==
    [][(this.op = "set" /\ this.err = NoErr /\ this.node /\ this'.op = "get") =>
          /\ this.arg.t = "string" => this'.result = this.arg
          /\ ~Truthy(this.arg) => (this.attr = NullValue /\ this'.result = NullValue)]_vars

\* C11 as amended: with the sub-node present, setting the property to a
\* non-empty string V and then reading it yields V, and setting it to a falsy
\* value, the empty string included, removes the attribute, so that reading
\* yields null.
C11_RoundTrip ==
    [][(this.op = "set" /\ this.err = NoErr /\ this.node /\ this'.op = "get") =>
          /\ (this.arg.t = "string" /\ this.arg # Str("")) => this'.result = this.arg
          /\ ~Truthy(this.arg) => (this.attr = NullValue /\ this'.result = NullValue)]_vars

\* the property has been set to the empty string with the sub-node present,
\* and read: the read gave null
C11_Witness ==
    /\ this.op = "get" /\ this.node
    /\ this.arg = Str("")
    /\ this.result = NullValue
    /\ this.attr = NullValue

\* C12 as claimed: setting the shadow-attribute property to any value V while
\* the sub-node is absent succeeds, and a read with the sub-node still absent
\* yields V, whatever was set or read before.
C12_ShadowPersistsEveryValue ==
    [][(this'.op = "set" /\ ~this.node => this'.err = NoErr)
       /\ ((this.op = "set" /\ ~this.node /\ this'.op = "get") =>
              this'.result = this.arg)]_vars

\* C12 as amended: setting the shadow-attribute property to a value V while
\* the sub-node is absent succeeds, and a read with the sub-node still absent
\* yields V, except that undefined set on an object that has no shadow
\* property yet is read as null.
C12_ShadowPersistence ==
    [][(this'.op = "set" /\ ~this.node => this'.err = NoErr)
       /\ ((this.op = "set" /\ ~this.node /\ this'.op = "get") =>
              this'.result = (IF this.arg = UndefinedValue /\ ~this.inThis
                              THEN NullValue ELSE this.arg))]_vars

\* the empty string, a falsy value, has been set while the sub-node was
\* absent, and read back
C12_Witness ==
    /\ this.op = "get" /\ ~this.node
    /\ this.arg = Str("")
    /\ this.result = Str("")
    /\ this.inThis /\ this.shadow = Str("")

\* C13 as claimed: a read of the shadow-attribute property returns the live
\* attribute of the sub-node whenever a sub-node exists and the shadow value
\* only when none exists; a write updates the shadow value and, if a sub-node
\* exists, the attribute.
C13_ReadsLiveWheneverNode ==
    [][/\ this'.op = "get" =>
             this'.result = (IF this.node THEN this.attr
                             ELSE IF this.inThis THEN this.shadow ELSE NullValue)
       /\ this'.op = "set" =>
             /\ ShadowValue(this') = this'.arg
             /\ this.node =>
                   this'.attr = (IF Truthy(this'.arg) THEN StringOf(this'.arg)
                                 ELSE NullValue)]_vars

\* C13 as amended: a read returns the live attribute when a sub-node exists
\* and carries the attribute; when there is no sub-node, or the sub-node does
\* not carry the attribute, it returns the shadow value if the object has
\* one and null otherwise.  A write leaves the shadow value equal to the value
\* written and, if a sub-node exists, sets the attribute to the value's
\* string, or removes it for a falsy value.
C13_ReadSource ==
    [][/\ this'.op = "get" =>
             this'.result = (IF this.node /\ this.attr # NullValue THEN this.attr
                             ELSE IF this.inThis THEN this.shadow ELSE NullValue)
       /\ this'.op = "set" =>
             /\ ShadowValue(this') = this'.arg
             /\ this'.err = NoErr
             /\ this.node =>
                   this'.attr = (IF Truthy(this'.arg) THEN StringOf(this'.arg)
                                 ELSE NullValue)
             /\ ~this.node => this'.attr = this.attr]_vars

\* a read with a sub-node that does not carry the attribute has returned the
\* shadow value
C13_Witness ==
    /\ this.op = "get" /\ this.node
    /\ this.attr = NullValue
    /\ this.inThis /\ this.shadow = Str("a")
    /\ this.result = Str("a")

\* C14: wherever __proto__ cannot be assigned, with or without native
\* registration, the metadata of every registered tag holds the snapshot of
\* its prototype's own properties, and upgrade of a node of that tag copies
\* them onto the node, sets the marker and does not fail; where __proto__ can
\* be assigned no snapshot is stored.
C14_RawDescriptorsAvailable ==
    /\ \A tag \in DOMAIN registry :
          registry[tag].rawDescriptors =
              (IF hasProto THEN UndefinedProto ELSE registry[tag].prototype)
    /\ (/\ ~hasProto
        /\ last.op = "upgrade"
        /\ ResolutionKey(nodes[last.n]) \in DOMAIN registry) =>
          /\ last.err # DefinePropertiesError
          /\ nodes[last.n].upgraded
          /\ nodes[last.n].own = registry[ResolutionKey(nodes[last.n])].prototype

\* C15: without native registration every successful register appends one
\* selector, extends[is="tag"] for a widget that extends a native element and
\* tag otherwise, so the Selector List holds one entry per registered tag in
\* registration order; no other call changes the list, and with native
\* registration the list stays empty.
C15_SelectorList ==
    [][/\ IF hasDocumentRegister
          THEN selectors' = <<>>
          ELSE IF last'.op = "register" /\ last'.err = NoErr
          THEN LET tag == last'.tag
                   ext == registry'[tag].extends
               IN  selectors' =
                       Append(selectors,
                              IF ext = Undefined THEN tag
                              ELSE ext \o <<"[", "i", "s", "=", "\"">> \o tag
                                       \o <<"\"", "]">>)
          ELSE selectors' = selectors
       /\ ~hasDocumentRegister => Len(selectors') = Cardinality(DOMAIN registry')]_vars

\* two tags have been registered without native registration, the first as an
\* extension of button and the second as a new element
C15_Witness ==
    /\ ~hasDocumentRegister
    /\ last.op = "register" /\ last.err = NoErr /\ last.tag = TagDB
    /\ selectors = << <<"b","u","t","t","o","n","[","i","s","=","\"","d","-","a","\"","]">>,
                      TagDB >>

\* C16: with and without native registration, the value an earlier register
\* returned is accepted as the base type of a later register of another tag,
\* its class name being the base name recorded at the earlier registration,
\* and as a behaviour it is replaced by the composed constructor of the
\* earlier registration.
C16_NestedRegistration ==
    /\ (last.op = "register" /\ last.tag = TagDX /\ last.err # DuplicateTag) =>
          /\ last.err = NoErr
          /\ TagDX \in DOMAIN registry
          /\ registry[TagDX].prototype.baseName = registry[TagDA].prototype.baseName
    /\ \A tag \in DOMAIN registry :
          restore(Returned(tag)) = [kind |-> "composed", tag |-> registry[tag].prototype.ctor]

\* the state a direct upgrade(node) call can leave a node in
UpgradeResults(el) == {upgrade(el, out, 0).el : out \in ParseOutcomes}

\* C17 as claimed: without native registration parse(root) leaves every
\* un-upgraded node under root as a direct upgrade would; the node is upgraded
\* exactly when its resolution key is a registered tag, and it has the widget
\* of a selector it matched.
C17_ParseIsUpgrade ==
    [][(last'.op = "parse" /\ ~hasDocumentRegister /\ selectors # <<>>) =>
          \A n \in DOMAIN nodes :
              (UnderRoot(nodes[n], last'.root) /\ ~nodes[n].upgraded) =>
                  /\ nodes'[n] \in UpgradeResults(nodes[n])
                  /\ nodes'[n].upgraded = (ResolutionKey(nodes[n]) \in DOMAIN registry)
                  /\ nodes'[n].upgraded =>
                        \E tag \in DOMAIN registry :
                            /\ MatchesWidget(nodes[n], tag)
                            /\ Behaves(nodes'[n], registry[tag].prototype)]_vars

\* C17 as amended: parse(root) leaves every node it reaches (a node under root
\* that matches a selector, no earlier upgrade of the parse having thrown) as
\* a direct upgrade would, and every other node untouched, a node under root
\* whose resolution key is a registered tag but which matches no selector
\* included; a node it upgrades has the widget of its resolution key.
C17_ParseAgreesWithUpgrade ==
    [][(last'.op = "parse" /\ ~hasDocumentRegister /\ selectors # <<>>) =>
          \A n \in DOMAIN nodes :
              /\ n \in Visited => nodes'[n] \in UpgradeResults(nodes[n])
              /\ n \notin Visited => nodes'[n] = nodes[n]
              /\ BecameUpgraded(n) =>
                    Behaves(nodes'[n], RegistryGet(ResolutionKey(nodes[n])).prototype)]_vars

\* a parse has returned that upgraded a node matching one widget's selector to
\* the widget its is attribute names, and left untouched a node under the
\* root whose is attribute names a registered widget
C17_Witness ==
    /\ last.op = "parse" /\ last.err = NoErr /\ ~hasDocumentRegister
    /\ Len(nodes) = 2
    /\ {TagDA, TagDX} \subseteq DOMAIN registry
    /\ \E a, b \in DOMAIN nodes :
          /\ nodes[a].nodeName = ToUpperCase(TagDA) /\ nodes[a].is = TagDX
          /\ UnderRoot(nodes[a], last.root)
          /\ nodes[a].upgraded /\ Behaves(nodes[a], registry[TagDX].prototype)
          /\ nodes[b].nodeName = ToUpperCase(TagDiv) /\ nodes[b].is = TagDA
          /\ UnderRoot(nodes[b], last.root)
          /\ Plain(nodes[b])

\* C20: a register call, successful or not, changes no node and invokes no
\* callback: a node that matches the tag stays as it was.
C20_RegisterTouchesNoNode ==
    [][last'.op = "register" => nodes' = nodes]_vars

\* a tag has been registered after a parse upgraded a node of another tag: a
\* node of the new tag that was in the document is still plain
C20_Witness ==
    /\ last.op = "register" /\ last.err = NoErr /\ last.tag = TagDA
    /\ ~hasDocumentRegister
    /\ Len(nodes) = 2
    /\ \E a, b \in DOMAIN nodes :
          /\ nodes[a].upgraded /\ ResolutionKey(nodes[a]) = TagDX
          /\ nodes[a].calls # <<>>
          /\ ResolutionKey(nodes[b]) = TagDA /\ MatchesWidget(nodes[b], TagDA)
          /\ Contains(nodes[b])
          /\ Plain(nodes[b])

\* whether a callback of the node has thrown
HasThrown(el) == \E i \in DOMAIN el.calls : el.calls[i].outcome = "throw"

\* C18: a node whose ready-callback or inserted-callback threw carries the
\* marker and the widget's prototype, and no later upgrade, parse or factory
\* call invokes a callback on it.
C18_MarkedAfterThrow ==
    [][/\ \A n \in DOMAIN nodes' :
             HasThrown(nodes'[n]) =>
                 /\ nodes'[n].upgraded
                 /\ Behaves(nodes'[n], RegistryGet(ResolutionKey(nodes'[n])).prototype)
       /\ \A n \in DOMAIN nodes :
             HasThrown(nodes[n]) =>
                 /\ nodes'[n].calls = nodes[n].calls
                 /\ nodes'[n].proto = nodes[n].proto
                 /\ nodes'[n].own = nodes[n].own]_vars

\* upgrade has been called again, and has returned, on an attached node whose
\* ready-callback threw: the inserted-callback the node exposes was not invoked
C18_Witness ==
    /\ last.op = "upgrade" /\ last.err = NoErr
    /\ last.n \in DOMAIN nodes
    /\ LET el == nodes[last.n]
       IN  /\ el.upgraded
           /\ ExposesInserted(el)
           /\ Contains(el)
           /\ CallNames(el) = <<"ready">>
           /\ el.calls[1].outcome = "throw"
           /\ el.calls[1].attached

\* C19: a node that is detached when it is upgraded, as every node the factory
\* returns is, has no inserted-callback invoked by that upgrade, and no later
\* call invokes a callback of a node that carries the marker.
C19_InsertedOnlyAtUpgrade ==
    [][/\ \A n \in DOMAIN nodes' :
             (BecameUpgraded(n) /\ ~Contains(nodes'[n])) =>
                 CallCount(nodes'[n], "inserted") = 0
       /\ \A n \in DOMAIN nodes :
             nodes[n].upgraded =>
                 CallCount(nodes'[n], "inserted") = CallCount(nodes[n], "inserted")
       /\ last'.op = "createElement" =>
             CallCount(nodes'[last'.n], "inserted") = 0]_vars

\* a parse has reached, and returned from, a node that was upgraded while
\* detached and attached under the root since: the inserted-callback the
\* node exposes has not been invoked
C19_Witness ==
    /\ last.op = "parse" /\ last.err = NoErr /\ ~hasDocumentRegister
    /\ \E n \in DOMAIN nodes :
          /\ n \in Matched(last.root)
          /\ nodes[n].upgraded
          /\ ExposesInserted(nodes[n])
          /\ Contains(nodes[n])
          /\ CallNames(nodes[n]) = <<"ready">>
          /\ nodes[n].calls[1].outcome = "return"
          /\ ~nodes[n].calls[1].attached

====
